---- MODULE Spec2Model ----
(***************************************************************************)
(* A model of bkchainsaw: the in-memory BK-tree (insert, search), the two  *)
(* provided metrics, the array codec, the extensible mapped buffer and the *)
(* file writer.                                                            *)
(***************************************************************************)
EXTENDS Integers, Sequences, FiniteSets, TLC

(***************************************************************************)
(* Bounds of the model.                                                    *)
(***************************************************************************)
MaxKey == 5
MaxNodes == 4
MaxTol == 2
MaxMetricKey == 15
MaxInitLen == 4
MaxAlloc == 3
MaxAllocCalls == 3
MaxNodeCount == 40
MaxHdrOffset == 127
MaxFileKey == 3
MaxInputLen == 3
MaxFileNodes == 257
MaxBodyLen == 3
MaxByte == 2

(***************************************************************************)
(* Inputs.                                                                 *)
(***************************************************************************)
U64Keys == 0 .. MaxKey

StrKeys == {"", "a", "foo", "bar", "baz"}

Metrics == {"hamming", "strlen"}

KeysOf(m) == IF m = "hamming" THEN U64Keys ELSE StrKeys

VARIABLES
    metric,     \* which key/metric pair the tree was constructed with
    nodes,      \* the nodes of the tree in creation order; nodes[1] is the root
    max_depth,  \* BkTree.max_depth
    panicked,   \* an assertion of add / set_child_node failed
    last        \* the last call made on the tree and what it reported

treeVars == <<metric, nodes, max_depth, panicked, last>>

VARIABLES
    measured,   \* the metric and the three keys handed to it
    dists       \* the distances it returned for them

metricVars == <<measured, dists>>

VARIABLES
    node_buffer, \* F64BNode8.node_buffer, a sequence of bytes
    key_buffer,  \* F64BNode8.key_buffer, a sequence of bytes
    offset,      \* F64BNode8.offset, the byte offset of the node in node_buffer
    decoded      \* the last field read through the node and what came back

codecVars == <<node_buffer, key_buffer, offset, decoded>>

VARIABLES
    backing,    \* the length of ExtensibleMmapMut.backing, the file
    alloc,      \* ExtensibleMmapMut.alloc, the allocation cursor
    ram,        \* the length of ExtensibleMmapMut.ram, the mapping
    returned    \* the results of the alloc_bytes calls made so far

mmapVars == <<backing, alloc, ram, returned>>

VARIABLES
    node_count,     \* tree.node_count, as the writer finds it
    created_on,     \* the length of descr.created_on
    descr_section,  \* descr.section: the FileSection of each name, or None
    section_offset, \* the local offset of main, where the next section starts
    sections,       \* the local sections of main, in push order
    header          \* what descr.encode returned

writerVars == <<node_count, created_on, descr_section, section_offset, sections, header>>

VARIABLES
    file,       \* the four section arrays the writer rendered, and their widths
    answer      \* the reports of a query of the tree and of the rendered arrays

fileVars == <<file, answer>>

VARIABLES
    bkfile,          \* the bytes of the file Header::read is given
    verify_checksum, \* the verify_checksum argument of Header::read
    changed,         \* the position of the one byte changed after writing, or 0
    header_read      \* what Header::read returned

readVars == <<bkfile, verify_checksum, changed, header_read>>

VARIABLES
    growth      \* a call of ensure_capacity on a large mapping, and its result

growVars == <<growth>>

vars == <<treeVars, metricVars, codecVars, mmapVars, writerVars, fileVars, readVars, growVars>>

None == [op |-> "none"]

(***************************************************************************)
(* Metrics.                                                                *)
(***************************************************************************)
\* (k1 ^ k2).count_ones(): the two operands are consumed bit by bit.
RECURSIVE XorCountOnes(_, _)
XorCountOnes(k1, k2) ==
    IF k1 = 0 /\ k2 = 0 THEN 0
    ELSE (IF (k1 % 2) # (k2 % 2) THEN 1 ELSE 0)
         + XorCountOnes(k1 \div 2, k2 \div 2)

HammingDistance(k1, k2) == XorCountOnes(k1, k2)

\* the difference of the lengths taken without abs()
AbsMissing(i) == i

Abs(i) == IF i < 0 THEN 0 - i ELSE i

StrLenDistance(k1, k2) == Abs(Len(k1) - Len(k2))

Distance(m, key, query) ==
    IF m = "hamming" THEN HammingDistance(key, query)
    ELSE StrLenDistance(key, query)

KeyEq(key, query) == key = query

ToKey(query) == query

(***************************************************************************)
(* In-memory nodes.  A node is [key, children]; children is the child      *)
(* vector, slot d at position d + 1, holding the index of the child in     *)
(* nodes, or 0 for None.                                                   *)
(***************************************************************************)
NewNode(key) == [key |-> key, children |-> <<>>]

\* has_child_at reporting every slot as empty
has_child_at_never(node, dist) == FALSE

has_child_at(node, dist) ==
    /\ dist + 1 <= Len(node.children)
    /\ node.children[dist + 1] # 0

child_at(node, dist) == node.children[dist + 1]

\* set_child_node pushing the child instead of storing it at its slot
set_child_node_pushed(node, dist, child) ==
    [node EXCEPT !.children = Append(node.children, child)]

\* children.resize_with(dist + 1, || None) when children.len() <= dist
Resized(children, dist) ==
    IF Len(children) <= dist
    THEN [i \in 1 .. (dist + 1) |-> IF i <= Len(children) THEN children[i] ELSE 0]
    ELSE children

set_child_node(node, dist, child) ==
    [node EXCEPT !.children = [Resized(node.children, dist) EXCEPT ![dist + 1] = child]]

\* enumerate, keep the occupied slots, reverse: the farthest slot first
RECURSIVE ChildrenFrom(_, _)
ChildrenFrom(children, i) ==
    IF i = 0 THEN <<>>
    ELSE IF children[i] # 0
         THEN <<[dist |-> i - 1, node |-> children[i]]>> \o ChildrenFrom(children, i - 1)
         ELSE ChildrenFrom(children, i - 1)

\* children_vector leaving out the last slot of the child vector
children_vector_short(node) ==
    IF node.children = <<>> THEN <<>>
    ELSE ChildrenFrom(node.children, Len(node.children) - 1)

\* children_vector without the rev(): the nearest slot first
children_vector_forward(node) ==
    LET kids == ChildrenFrom(node.children, Len(node.children))
    IN  [i \in 1 .. Len(kids) |-> kids[Len(kids) + 1 - i]]

children_vector(node) == ChildrenFrom(node.children, Len(node.children))

(***************************************************************************)
(* BkTree::add.                                                            *)
(***************************************************************************)
\* the while loop of add: the node the descent stops at
RECURSIVE Descend(_, _, _, _, _)
Descend(ns, m, cur, depth, query) ==
    LET dist == Distance(m, ns[cur].key, query) IN
    IF has_child_at(ns[cur], dist) /\ (dist = 0 \/ ~KeyEq(ns[cur].key, query))
    THEN Descend(ns, m, child_at(ns[cur], dist), depth + 1, query)
    ELSE [cur |-> cur, dist |-> dist, depth |-> depth]

\* a tree value: [nodes, max_depth, panicked]
EmptyTree == [nodes |-> <<>>, max_depth |-> 0, panicked |-> FALSE]

AddTo(t, m, query) ==
    IF t.nodes = <<>>
    THEN [t EXCEPT !.nodes = <<NewNode(ToKey(query))>>]
    ELSE
        LET stop == Descend(t.nodes, m, 1, 0, query)
            cur == t.nodes[stop.cur]
            asserted == ~has_child_at(cur, stop.dist) \/ KeyEq(cur.key, query)
            slotFree == ~has_child_at(cur, stop.dist)
            depth == IF t.max_depth < stop.depth THEN stop.depth ELSE t.max_depth
        IN  IF ~asserted THEN [t EXCEPT !.panicked = TRUE]
            ELSE IF KeyEq(cur.key, query) THEN [t EXCEPT !.max_depth = depth]
            ELSE IF ~slotFree THEN [t EXCEPT !.panicked = TRUE]
            ELSE [nodes |-> Append(
                              [t.nodes EXCEPT ![stop.cur] =
                                  set_child_node(cur, stop.dist, Len(t.nodes) + 1)],
                              NewNode(ToKey(query))),
                  max_depth |-> depth,
                  panicked |-> FALSE]

(***************************************************************************)
(* BkFind::each over a node view: key[i] and kids[i] (the children vector   *)
(* of node i) for the nodes 1 .. n of a backend.                           *)
(***************************************************************************)
RamView(ns) ==
    [key |-> [i \in 1 .. Len(ns) |-> ns[i].key],
     kids |-> [i \in 1 .. Len(ns) |-> children_vector(ns[i])],
     root |-> IF ns = <<>> THEN 0 ELSE 1]

\* the lower edge of the window left at the candidate's distance
NoSub(a, b) == a

SaturatingSub(a, b) == IF a < b THEN 0 ELSE a - b

\* the entries pushed for one candidate, in push order
RECURSIVE Pushed(_, _, _, _, _, _, _)
Pushed(view, m, needle, kids, i, min, max) ==
    IF i > Len(kids) THEN <<>>
    ELSE IF min <= kids[i].dist /\ kids[i].dist <= max
         THEN <<[dist |-> Distance(m, view.key[kids[i].node], needle),
                 node |-> kids[i].node]>>
              \o Pushed(view, m, needle, kids, i + 1, min, max)
         ELSE Pushed(view, m, needle, kids, i + 1, min, max)

\* one turn of the while loop of each, on [stack, out]: out is the reports
\* in callback order
FindPop(view, m, needle, tolerance, st) ==
    IF st.stack = <<>> THEN st
    ELSE
        LET candidate == st.stack[Len(st.stack)]
            rest == SubSeq(st.stack, 1, Len(st.stack) - 1)
            min == SaturatingSub(candidate.dist, tolerance)
            max == candidate.dist + tolerance
            pushed == Pushed(view, m, needle, view.kids[candidate.node], 1, min, max)
            reported == IF candidate.dist <= tolerance
                        THEN Append(st.out, <<candidate.dist, view.key[candidate.node]>>)
                        ELSE st.out
        IN  [stack |-> rest \o pushed, out |-> reported]

\* the while loop of each: pops until the stack is empty, or until the
\* turns given, which no search of a tree uses up, are spent; the run of
\* turns is split in halves
RECURSIVE FindLoop(_, _, _, _, _, _)
FindLoop(view, m, needle, tolerance, st, turns) ==
    IF st.stack = <<>> \/ turns = 0 THEN st
    ELSE IF turns = 1 THEN FindPop(view, m, needle, tolerance, st)
    ELSE FindLoop(view, m, needle, tolerance,
                  FindLoop(view, m, needle, tolerance, st, turns \div 2),
                  turns - (turns \div 2))

FindEach(view, m, needle, tolerance) ==
    IF view.root = 0 THEN <<>>
    ELSE FindLoop(view, m, needle, tolerance,
                  [stack |-> <<[dist |-> Distance(m, view.key[view.root], needle),
                                node |-> view.root]>>,
                   out |-> <<>>],
                  4 * Len(view.key) + 4).out

Range(s) == {s[i] : i \in DOMAIN s}

(***************************************************************************)
(* BkPreOrder over the in-memory tree.  A callback is recorded as          *)
(* [dist, children, key, node]: its three arguments and the node they were *)
(* taken from.                                                             *)
(***************************************************************************)
\* the while loop of each_stacksafe on a stack of [dist, node] entries
RECURSIVE each_stacksafe(_, _, _)
each_stacksafe(ns, stack, out) ==
    IF stack = <<>> THEN out
    ELSE
        LET entry == stack[Len(stack)]
            children == children_vector(ns[entry.node])
        IN  each_stacksafe(ns, SubSeq(stack, 1, Len(stack) - 1) \o children,
                           Append(out, [dist |-> entry.dist, children |-> Len(children),
                                        key |-> ns[entry.node].key, node |-> entry.node]))

\* the for loop of each: one each_stacksafe per child of the root
RECURSIVE EachChild(_, _, _, _)
EachChild(ns, children, i, out) ==
    IF i > Len(children) THEN out
    ELSE EachChild(ns, children, i + 1, each_stacksafe(ns, <<children[i]>>, out))

\* BkPreOrder::new(root).each(callback): the callbacks in call order
preorder_each(ns) ==
    IF ns = <<>> THEN <<>>
    ELSE
        LET children == children_vector(ns[1])
        IN  EachChild(ns, children, 1,
                      <<[dist |-> 0, children |-> Len(children), key |-> ns[1].key,
                         node |-> 1]>>)

(***************************************************************************)
(* The tree specification: any sequence of add and find calls.             *)
(***************************************************************************)
NoCall == None

TreeIdle ==
    /\ metric = "hamming"
    /\ nodes = <<>>
    /\ max_depth = 0
    /\ panicked = FALSE
    /\ last = NoCall

MetricIdle ==
    /\ measured = None
    /\ dists = None

CodecIdle ==
    /\ node_buffer = <<>>
    /\ key_buffer = <<>>
    /\ offset = 0
    /\ decoded = None

MmapIdle ==
    /\ backing = 0
    /\ alloc = 0
    /\ ram = 0
    /\ returned = <<>>

WriterIdle ==
    /\ node_count = 0
    /\ created_on = 0
    /\ descr_section = <<>>
    /\ section_offset = 0
    /\ sections = <<>>
    /\ header = None

NoFile ==
    [state |-> "none", config |-> <<>>, dist |-> <<>>, child_index |-> <<>>,
     num_children |-> <<>>, keys |-> <<>>]

FileIdle ==
    /\ file = NoFile
    /\ answer = None

ReadIdle ==
    /\ bkfile = <<>>
    /\ verify_checksum = FALSE
    /\ changed = 0
    /\ header_read = None

GrowIdle == growth = None

TreeInit ==
    /\ metric \in Metrics
    /\ nodes = <<>>
    /\ max_depth = 0
    /\ panicked = FALSE
    /\ last = NoCall

Add(query) ==
    /\ ~panicked
    /\ Len(nodes) < MaxNodes
    /\ LET t == AddTo([nodes |-> nodes, max_depth |-> max_depth, panicked |-> FALSE],
                      metric, query)
       IN  /\ nodes' = t.nodes
           /\ max_depth' = t.max_depth
           /\ panicked' = t.panicked
    /\ last' = [op |-> "add"]
    /\ UNCHANGED <<metric, metricVars, codecVars, mmapVars, writerVars, fileVars, readVars, growVars>>

Find(needle, tolerance) ==
    /\ ~panicked
    /\ last.op # "find"
    /\ last' = [op |-> "find", needle |-> needle, tolerance |-> tolerance,
                out |-> FindEach(RamView(nodes), metric, needle, tolerance)]
    /\ UNCHANGED <<metric, nodes, max_depth, panicked, metricVars, codecVars, mmapVars, writerVars, fileVars, readVars, growVars>>

Preorder ==
    /\ ~panicked
    /\ last.op # "preorder"
    /\ last' = [op |-> "preorder", out |-> preorder_each(nodes)]
    /\ UNCHANGED <<metric, nodes, max_depth, panicked, metricVars, codecVars, mmapVars, writerVars, fileVars, readVars, growVars>>

AddAny == \E query \in KeysOf(metric) : Add(query)

FindAny == \E needle \in KeysOf(metric), tolerance \in 0 .. MaxTol : Find(needle, tolerance)

Init == TreeInit /\ MetricIdle /\ CodecIdle /\ MmapIdle /\ WriterIdle /\ FileIdle /\ ReadIdle /\ GrowIdle

Next == AddAny \/ FindAny \/ Preorder

Spec == Init /\ [][Next]_vars

(***************************************************************************)
(* The metric specification: either metric applied to any three keys.      *)
(***************************************************************************)
MetricU64s == 0 .. MaxMetricKey

MetricStrs == {"", "a", "ab", "foo", "bar", "quux"}

MetricInputs(m) == IF m = "hamming" THEN MetricU64s ELSE MetricStrs

MetricInit ==
    /\ \E m \in Metrics :
         \E a \in MetricInputs(m), b \in MetricInputs(m), c \in MetricInputs(m) :
            measured = [m |-> m, a |-> a, b |-> b, c |-> c]
    /\ dists = None

Measure ==
    /\ dists = None
    /\ dists' = [op |-> "distance",
                 ab |-> Distance(measured.m, measured.a, measured.b),
                 ba |-> Distance(measured.m, measured.b, measured.a),
                 bc |-> Distance(measured.m, measured.b, measured.c),
                 ac |-> Distance(measured.m, measured.a, measured.c)]
    /\ UNCHANGED <<measured, treeVars, codecVars, mmapVars, writerVars, fileVars, readVars, growVars>>

InitMetric == MetricInit /\ TreeIdle /\ CodecIdle /\ MmapIdle /\ WriterIdle /\ FileIdle /\ ReadIdle /\ GrowIdle

NextMetric == Measure

SpecMetric == InitMetric /\ [][NextMetric]_vars

\* C6: both metrics are symmetric, d(a,b) = d(b,a), and obey the triangle
\* inequality, d(a,c) <= d(a,b) + d(b,c).
C6_MetricContract ==
    dists.op = "distance" =>
        /\ dists.ab = dists.ba
        /\ dists.ac <= dists.ab + dists.bc

\* three different string keys for which the triangle inequality is tight
C6_Witness ==
    /\ dists.op = "distance"
    /\ measured.m = "strlen"
    /\ dists.ab > 0 /\ dists.bc > 0
    /\ dists.ac = dists.ab + dists.bc

StoredKeys == {nodes[i].key : i \in 1 .. Len(nodes)}

\* the adds of queries in order, the sequence split in halves; add is not
\* called again after it panicked
RECURSIVE BuildTree(_, _, _)
BuildTree(t, m, queries) ==
    IF queries = <<>> \/ t.panicked THEN t
    ELSE IF Len(queries) = 1 THEN AddTo(t, m, queries[1])
    ELSE LET half == Len(queries) \div 2
         IN  BuildTree(BuildTree(t, m, SubSeq(queries, 1, half)), m,
                       SubSeq(queries, half + 1, Len(queries)))

\* one fixed order of all the keys of a metric
KeyOrder(m) ==
    IF m = "hamming" THEN [i \in 1 .. (MaxKey + 1) |-> i - 1]
    ELSE <<"", "a", "foo", "bar", "baz">>

InStored(k) == k \in StoredKeys

\* the stored keys, each once, in the fixed order
CanonicalOrder == SelectSeq(KeyOrder(metric), InStored)

FindSet(ns, needle, tolerance) ==
    Range(FindEach(RamView(ns), metric, needle, tolerance))

\* C1: find reports exactly the stored keys within tolerance of the needle,
\* each with its distance to the needle: none missed, none outside.
C1_FindExact ==
    last.op = "find" =>
        Range(last.out) =
            {<<Distance(metric, k, last.needle), k>> :
                k \in {s \in StoredKeys : Distance(metric, s, last.needle) <= last.tolerance}}

C1_Witness ==
    /\ last.op = "find"
    /\ Len(nodes) = MaxNodes
    /\ Len(last.out) >= 2
    /\ Len(last.out) < Len(nodes)

\* C2: an add of a query that is already stored creates no node and leaves
\* the result set of every find unchanged.
C2_IdempotentAdd ==
    [][\A query \in KeysOf(metric) :
          (Add(query) /\ query \in StoredKeys) =>
              /\ Len(nodes') = Len(nodes)
              /\ \A needle \in KeysOf(metric), tolerance \in 0 .. MaxTol :
                    FindSet(nodes', needle, tolerance) = FindSet(nodes, needle, tolerance)
      ]_vars

\* C4: the tree built by adding the same set of keys in another order (the
\* fixed order) answers the find just made with the same set of
\* (distance, key) pairs; every order of every key set is reachable, so any
\* two orders agree.
C4_OrderIndependent ==
    last.op = "find" =>
        Range(last.out) =
            FindSet(BuildTree(EmptyTree, metric, CanonicalOrder).nodes,
                    last.needle, last.tolerance)

\* a find with several results on a tree whose shape differs from the shape
\* of the tree built in the fixed order: the roots have different fan-out
C4_Witness ==
    /\ last.op = "find"
    /\ Len(nodes) = MaxNodes
    /\ Len(last.out) >= 2
    /\ Len(children_vector(nodes[1])) #
           Len(children_vector(BuildTree(EmptyTree, metric, CanonicalOrder).nodes[1]))

\* C5: for every node and every occupied child slot d of it, the distance
\* from the node's key to the child's key is d.
C5_ShapeInvariant ==
    \A i \in 1 .. Len(nodes) :
        \A d \in 0 .. (Len(nodes[i].children) - 1) :
            has_child_at(nodes[i], d) =>
                Distance(metric, nodes[i].key, nodes[child_at(nodes[i], d)].key) = d

\* a tree of depth two: a child that has a child of its own
C5_Witness ==
    /\ Len(nodes) = MaxNodes
    /\ \E i \in 2 .. Len(nodes) : children_vector(nodes[i]) # <<>>
    /\ Len(children_vector(nodes[1])) >= 2

(***************************************************************************)
(* The array codec: F64BNode8 over a node buffer and a key buffer.         *)
(* A read returns Some(value), NoValue (None) or ends in a panic.          *)
(***************************************************************************)
Some(v) == [kind |-> "some", value |-> v]

NoValue == [kind |-> "none"]

Panic == [kind |-> "panic"]

\* get_slice: the bytes start .. end of buf, or None when buf is too short
get_slice(buf, offset1, offset2, len) ==
    LET start == offset1 + offset2
        end == start + len
    IN  IF Len(buf) >= end THEN Some(SubSeq(buf, start + 1, end)) ELSE NoValue

\* LittleEndian::read_u16: the first two bytes of the slice
ReadU16(bytes) == bytes[1] + 256 * bytes[2]

\* LittleEndian::read_u64: the eight bytes as four 16-bit limbs, lowest first
ReadU64(bytes) == [i \in 1 .. 4 |-> bytes[2 * i - 1] + 256 * bytes[2 * i]]

encoding_size == 8

key_length == 8

F64_dist(nbuf, off) ==
    LET slice == get_slice(nbuf, off, 0, 1)
    IN  IF slice = NoValue THEN NoValue ELSE Some(slice.value[1])

F64_child_count(nbuf, off) ==
    LET slice == get_slice(nbuf, off, 1, 1)
    IN  IF slice = NoValue THEN NoValue ELSE Some(slice.value[1])

F64_children_offset(nbuf, off) ==
    LET slice == get_slice(nbuf, off, 4, 4)
    IN  IF slice = NoValue THEN NoValue
        ELSE IF ReadU16(slice.value) > 0 THEN Some(ReadU16(slice.value)) ELSE NoValue

F64_key_offset(off) == (off \div encoding_size) * key_length

F64_key_end(kbuf, off) ==
    LET end == F64_key_offset(off) + key_length
    IN  IF end <= Len(kbuf) THEN Some(F64_key_offset(off) + 8) ELSE NoValue

F64_key(kbuf, off) ==
    LET start == F64_key_offset(off)
        end == F64_key_end(kbuf, off)
    IN  IF end = NoValue THEN Panic
        ELSE Some(ReadU64(SubSeq(kbuf, start + 1, end.value)))

Fields == {"dist", "child_count", "children_offset", "key"}

Decode(field, nbuf, kbuf, off) ==
    CASE field = "dist" -> F64_dist(nbuf, off)
      [] field = "child_count" -> F64_child_count(nbuf, off)
      [] field = "children_offset" -> F64_children_offset(nbuf, off)
      [] field = "key" -> F64_key(kbuf, off)

\* the buffers of test::two_f64bnode8
TestNodes == <<8, 5, 1, 0, 1, 0, 0, 0, 4, 3, 0, 0, 0, 0, 0, 0>>

TestKeys == <<0, 1, 2, 3, 4, 5, 6, 7, 8, 9, 10, 11, 12, 13, 14, 15>>

\* a node over the test buffers cut off at any length, at the offset of the
\* first node, of the second, or just past the last
CodecInit ==
    /\ \E n \in 0 .. Len(TestNodes) : node_buffer = SubSeq(TestNodes, 1, n)
    /\ \E k \in 0 .. Len(TestKeys) : key_buffer = SubSeq(TestKeys, 1, k)
    /\ offset \in {0, encoding_size, 2 * encoding_size}
    /\ decoded = None

Read(field) ==
    /\ decoded' = [op |-> "read", field |-> field,
                   result |-> Decode(field, node_buffer, key_buffer, offset)]
    /\ UNCHANGED <<node_buffer, key_buffer, offset, treeVars, metricVars, mmapVars, writerVars, fileVars, readVars, growVars>>

ReadAny == \E field \in Fields : Read(field)

InitCodec == CodecInit /\ TreeIdle /\ MetricIdle /\ MmapIdle /\ WriterIdle /\ FileIdle /\ ReadIdle /\ GrowIdle

NextCodec == ReadAny

SpecCodec == InitCodec /\ [][NextCodec]_vars

\* the byte range a field of the node at off occupies: <<buffer, start, end>>
FieldRange(field, nbuf, kbuf, off) ==
    CASE field = "dist" -> <<nbuf, off, off + 1>>
      [] field = "child_count" -> <<nbuf, off + 1, off + 2>>
      [] field = "children_offset" -> <<nbuf, off + 4, off + 8>>
      [] field = "key" -> <<kbuf, 8 * (off \div 8), 8 * (off \div 8) + 8>>

\* C7: a read of a field whose byte range extends past the end of its
\* buffer yields "no value"; it does not panic and returns no bytes.
C7_TruncatedDecode ==
    decoded.op = "read" =>
        LET range == FieldRange(decoded.field, node_buffer, key_buffer, offset)
        IN  range[3] > Len(range[1]) => decoded.result = NoValue

(***************************************************************************)
(* The extensible mapped buffer.                                           *)
(***************************************************************************)
ONE_GIB == 1073741824

Max(a, b) == IF a >= b THEN a ELSE b

\* the size ensure_capacity grows a mapping of cur_size bytes to
NewSize(cur_size, len) ==
    Max(len, IF cur_size > ONE_GIB THEN cur_size + ONE_GIB ELSE cur_size * 2)

\* ensure_capacity(len) on [backing, ram]; io names the system call that
\* fails, if one does: the result is the new [backing, ram] and ok or not
ensure_capacity(b, r, len, io) ==
    IF r < len
    THEN IF io = "set_len" THEN [backing |-> b, ram |-> r, ok |-> FALSE]
         ELSE IF io \in {"flush_async", "map_mut"}
              THEN [backing |-> NewSize(r, len), ram |-> r, ok |-> FALSE]
              ELSE [backing |-> NewSize(r, len), ram |-> NewSize(r, len), ok |-> TRUE]
    ELSE [backing |-> b, ram |-> r, ok |-> TRUE]

IoOutcomes == {"ok", "set_len", "flush_async", "map_mut"}

\* ExtensibleMmapMut::on(backing) for a file of any small length
MmapInit ==
    /\ backing \in 0 .. MaxInitLen
    /\ ram = backing
    /\ alloc = 0
    /\ returned = <<>>

AllocBytes(additional, io) ==
    /\ Len(returned) < MaxAllocCalls
    /\ LET start == alloc
           end == alloc + additional
           grown == ensure_capacity(backing, ram, end, io)
       IN  /\ backing' = grown.backing
           /\ ram' = grown.ram
           /\ returned' = IF grown.ok
                           THEN Append(returned, [start |-> start, end |-> end])
                           ELSE returned
    /\ UNCHANGED <<alloc, treeVars, metricVars, codecVars, writerVars, fileVars, readVars, growVars>>

EnsureCapacity(len, io) ==
    /\ LET grown == ensure_capacity(backing, ram, len, io)
       IN  /\ backing' = grown.backing
           /\ ram' = grown.ram
    /\ UNCHANGED <<alloc, returned, treeVars, metricVars, codecVars, writerVars, fileVars, readVars, growVars>>

next_offset == alloc

AllocBytesAny == \E additional \in 0 .. MaxAlloc, io \in IoOutcomes : AllocBytes(additional, io)

EnsureCapacityAny ==
    \E len \in 0 .. (MaxAlloc * MaxAllocCalls), io \in IoOutcomes : EnsureCapacity(len, io)

InitMmap == MmapInit /\ TreeIdle /\ MetricIdle /\ CodecIdle /\ WriterIdle /\ FileIdle /\ ReadIdle /\ GrowIdle

NextMmap == AllocBytesAny \/ EnsureCapacityAny

SpecMmap == InitMmap /\ [][NextMmap]_vars

\* C8: each successful alloc_bytes returns the range that starts where the
\* previous one ended (the first at 0), and next_offset() is the end of the
\* last range returned: the cursor advanced by every allocation.
C8_BumpAllocation ==
    /\ \A i \in 1 .. Len(returned) :
          returned[i].start = (IF i = 1 THEN 0 ELSE returned[i - 1].end)
    /\ next_offset = (IF returned = <<>> THEN 0 ELSE returned[Len(returned)].end)

(***************************************************************************)
(* The writer: the section table and the descriptor header.                *)
(***************************************************************************)
PREFIX_SIZE == 86
ALIGNMENT == 64

\* every value of the model is below 2<<32, so the wider arms are not reached
byte_size_for_max_val(i) ==
    IF i < 512 THEN 1
    ELSE IF i < 131072 THEN 2
    ELSE IF i < 33554432 THEN 3
    ELSE 4

align_down(alignment, value) == value - (value % alignment)
align(alignment, value) == (value + alignment) - (value % alignment)

SectionOrder == <<"Dist", "Child", "Num", "Key">>

\* config.dist, config.child_index, config.num_children, config.key
ItemSize(name, count) ==
    CASE name = "Dist" -> byte_size_for_max_val(64)
      [] name = "Child" -> byte_size_for_max_val(count)
      [] name = "Num" -> 1
      [] name = "Key" -> 8

\* bytes.borrow().len(): one entry of the section's width for every node
SectionLen(name, count) == ItemSize(name, count) * count

\* the lengths Utc::now().to_rfc3339() produces: 0, 3, 6 or 9 fraction digits
CreatedOnLens == {25, 29, 32, 35}

\* the length of the CBOR head of an unsigned integer or of a length
UintLen(n) ==
    IF n < 24 THEN 1
    ELSE IF n < 256 THEN 2
    ELSE IF n < 65536 THEN 3
    ELSE 5

TextLen(len) == UintLen(len) + len

\* Option<FileSection>: null, or a map of ItemSize, Bytes and Offset
FileSectionLen(section) ==
    IF section = None THEN 1
    ELSE 1 + TextLen(8) + (IF section.item_size = NoValue THEN 1 ELSE UintLen(section.item_size.value))
           + TextLen(5) + UintLen(section.bytes)
           + TextLen(6) + UintLen(section.offset)

\* serde_cbor::to_vec(&descr).len(): a map of Created-On, Node-Count,
\* section (a map of Dist, Child, Num and Key) and Padding
DescrLen(created, count, section, padding) ==
    1 + TextLen(10) + TextLen(created)
      + TextLen(10) + UintLen(count)
      + TextLen(7) + 1 + TextLen(4) + FileSectionLen(section["Dist"])
                       + TextLen(5) + FileSectionLen(section["Child"])
                       + TextLen(3) + FileSectionLen(section["Num"])
                       + TextLen(3) + FileSectionLen(section["Key"])
      + TextLen(7) + TextLen(padding)

\* FileDescrHeader::encode: the length of the buffer returned, or the panic
\* of its assertion
encode(created, count, section, off) ==
    LET buffer == DescrLen(created, count, section, 0)
        padding == ALIGNMENT - ((off + buffer + 1) % ALIGNMENT)
        padded == DescrLen(created, count, section, padding)
    IN  IF 63 = (off + padded) % ALIGNMENT THEN Some(padded) ELSE Panic

NoSections == [name \in {"Dist", "Child", "Num", "Key"} |-> None]

WriterInit ==
    /\ node_count \in 0 .. MaxNodeCount
    /\ created_on \in CreatedOnLens
    /\ descr_section = NoSections
    /\ section_offset = 0
    /\ sections = <<>>
    /\ header = None

\* one call of add_section, for the next section of the fixed order
AddSection ==
    /\ header = None
    /\ Len(sections) < 4
    /\ LET name == SectionOrder[Len(sections) + 1]
           item_size == ItemSize(name, node_count)
           len == SectionLen(name, node_count)
       IN  /\ descr_section' = [descr_section EXCEPT ![name] =
                  [offset |-> section_offset, bytes |-> len,
                   item_size |-> IF item_size > 0 THEN Some(item_size) ELSE NoValue]]
           /\ sections' = Append(sections, [name |-> name, offset |-> section_offset, bytes |-> len])
           /\ section_offset' = align(64, section_offset + len)
    /\ UNCHANGED <<node_count, created_on, header, treeVars, metricVars, codecVars, mmapVars, fileVars, readVars, growVars>>

Encode(off) ==
    /\ header = None
    /\ header' = [op |-> "encode", offset |-> off,
                  result |-> encode(created_on, node_count, descr_section, off)]
    /\ UNCHANGED <<node_count, created_on, descr_section, section_offset, sections,
                   treeVars, metricVars, codecVars, mmapVars, fileVars, readVars, growVars>>

EncodeAny == \E off \in (0 .. MaxHdrOffset) \cup {PREFIX_SIZE} : Encode(off)

InitWriter == WriterInit /\ TreeIdle /\ MetricIdle /\ CodecIdle /\ MmapIdle /\ FileIdle /\ ReadIdle /\ GrowIdle

NextWriter == AddSection \/ EncodeAny

SpecWriter == InitWriter /\ [][NextWriter]_vars

\* C9: whenever encode(offset) returns a buffer, of length L, then
\* (offset + L) % 64 = 0: the byte after the header is 64-byte aligned.
C9_HeaderAligned ==
    (header # None /\ header.result # Panic) =>
        (header.offset + header.result.value) % 64 = 0

\* C10: the sections are laid out in the order Dist, Child, Num, Key, every
\* section's Offset is a multiple of 64, and every section starts at or after
\* the end (Offset + Bytes) of the section before it.
C10_SectionTable ==
    \A i \in 1 .. Len(sections) :
        /\ sections[i].name = SectionOrder[i]
        /\ descr_section[sections[i].name] # None
        /\ descr_section[sections[i].name].offset = sections[i].offset
        /\ descr_section[sections[i].name].bytes = sections[i].bytes
        /\ sections[i].offset % 64 = 0
        /\ i > 1 => sections[i].offset >= sections[i - 1].offset + sections[i - 1].bytes

C10_Witness ==
    /\ Len(sections) = 4
    /\ \A i \in 1 .. 4 : sections[i].bytes > 0
    /\ sections[4].bytes > 64
    /\ sections[4].offset > sections[3].offset + sections[3].bytes

(***************************************************************************)
(* Rendering a tree into the four section arrays (walk) and searching the  *)
(* arrays through the file-backed node view (QueryNode).                   *)
(***************************************************************************)
\* byte j of the little-endian form of value; the values here are below
\* 2^31, so the bytes from the fifth on are zero
ByteOf(value, j) == IF j >= 4 THEN 0 ELSE (value \div (256 ^ j)) % 256

ToLittleEndian(value, width) == [j \in 1 .. width |-> ByteOf(value, j - 1)]

RECURSIVE FromLittleEndian(_)
FromLittleEndian(bytes) ==
    IF bytes = <<>> THEN 0
    ELSE Head(bytes) + 256 * FromLittleEndian(Tail(bytes))

\* whether value is representable in width bytes
Fits(value, width) == width >= 4 \/ value < 256 ^ width

Zeros(n) == [i \in 1 .. n |-> 0]

\* FNode setters: the entry of a node is at index * width of its array
WriteEntry(buf, index, width, value) ==
    SubSeq(buf, 1, index * width) \o ToLittleEndian(value, width)
        \o SubSeq(buf, (index + 1) * width + 1, Len(buf))

\* FNode getters: no value when the entry reaches past the end of the array
ReadEntry(buf, index, width) ==
    IF (index + 1) * width <= Len(buf)
    THEN Some(FromLittleEndian(SubSeq(buf, index * width + 1, (index + 1) * width)))
    ELSE NoValue

FNode_distance(f, index) == ReadEntry(f.dist, index, f.config.dist)

FNode_child_count(f, index) == ReadEntry(f.num_children, index, f.config.num_children)

\* a children offset of 0 means the node has no children
FNode_children_offset(f, index) ==
    LET entry == ReadEntry(f.child_index, index, f.config.child_index)
    IN  IF entry = Some(0) THEN NoValue ELSE entry

FNode_key(f, index) == ReadEntry(f.keys, index, f.config.key)

\* the widths main chooses for a tree of count nodes
FixedKeysConfig(count) ==
    [child_index |-> byte_size_for_max_val(count),
     num_children |-> 1,
     dist |-> byte_size_for_max_val(64),
     key |-> 8]

\* WalkCalls placing every child one index further on
WalkCalls_shifted(children, child_start_index) ==
    [j \in 1 .. Len(children) |->
        [index |-> child_start_index + (Len(children) - j) + 1,
         dist |-> children[j].dist,
         node |-> children[j].node]]

\* the calls of walk pending for the children of a node, the call for
\* children.iter().rev().enumerate() item 0 last (it is made first)
WalkCalls(children, child_start_index) ==
    [j \in 1 .. Len(children) |->
        [index |-> child_start_index + (Len(children) - j),
         dist |-> children[j].dist,
         node |-> children[j].node]]

\* the statements of one call of walk that touch the allocator, in order,
\* each with alloc.index as it is when the statement runs: the alloc of the
\* children (if any), the mirror taken by index, and its four writes
WalkEvents(call_index, index, children_len) ==
    LET next == index + children_len
        at(op) == [op |-> op, index |-> call_index, next |-> next]
    IN  (IF children_len = 0 THEN <<>>
         ELSE <<[op |-> "alloc", index |-> index, next |-> next]>>)
        \o <<at("fnode"), at("set_key"), at("set_dist"), at("set_num_children"),
              at("set_child_index")>>

\* one call of walk, the last of the stack of pending calls; w.index is
\* alloc.index, and w.overflow says a value did not fit the width of its entry
WalkCall(ns, config, w) ==
    IF w.stack = <<>> THEN w
    ELSE
        LET call == w.stack[Len(w.stack)]
            children == children_vector(ns[call.node])
            child_start_index == IF Len(children) = 0 THEN 0 ELSE w.index
        IN  [keys |-> WriteEntry(w.keys, call.index, config.key, ns[call.node].key),
             dist |-> WriteEntry(w.dist, call.index, config.dist, call.dist),
             num_children |->
                 WriteEntry(w.num_children, call.index, config.num_children, Len(children)),
             child_index |->
                 WriteEntry(w.child_index, call.index, config.child_index, child_start_index),
             index |-> w.index + Len(children),
             events |-> WalkEvents(call.index, w.index, Len(children)),
             overflow |-> \/ w.overflow
                          \/ ~Fits(call.dist, config.dist)
                          \/ ~Fits(Len(children), config.num_children)
                          \/ ~Fits(child_start_index, config.child_index),
             stack |-> SubSeq(w.stack, 1, Len(w.stack) - 1)
                           \o WalkCalls(children, child_start_index)]

\* walk, its recursion unfolded into the next pending calls, one for each
\* node, the run of calls split in halves
RECURSIVE WalkLoop(_, _, _, _)
WalkLoop(ns, config, w, calls) ==
    IF w.stack = <<>> \/ calls = 0 THEN w
    ELSE IF calls = 1 THEN WalkCall(ns, config, w)
    ELSE WalkLoop(ns, config, WalkLoop(ns, config, w, calls \div 2), calls - (calls \div 2))

\* Step 2 of main: the temporary files sized for the node count, the root
\* allocated at index 0, and the walk from it
Rendered(ns) ==
    LET count == Len(ns)
        config == FixedKeysConfig(count)
    IN  WalkLoop(ns, config,
            [keys |-> Zeros(count * 8),
             dist |-> Zeros(count),
             child_index |-> Zeros(count * byte_size_for_max_val(count)),
             num_children |-> Zeros(count * byte_size_for_max_val(count)),
             index |-> 1,
             events |-> <<[op |-> "alloc", index |-> 0, next |-> 1]>>,
             overflow |-> FALSE,
             stack |-> <<[index |-> 0, dist |-> 0, node |-> 1]>>],
            count)

\* QueryNode::children_vector of the node at index: the children whose
\* distance and key decode, as [dist, node] with node = index + 1
RECURSIVE QueryChildren(_, _, _, _)
QueryChildren(f, base, i, child_count) ==
    IF i >= child_count THEN <<>>
    ELSE IF FNode_distance(f, base + i) # NoValue /\ FNode_key(f, base + i) # NoValue
         THEN <<[dist |-> FNode_distance(f, base + i).value, node |-> base + i + 1]>>
              \o QueryChildren(f, base, i + 1, child_count)
         ELSE QueryChildren(f, base, i + 1, child_count)

QueryNode_children_vector(f, index) ==
    IF FNode_children_offset(f, index) # NoValue /\ FNode_child_count(f, index) # NoValue
    THEN QueryChildren(f, FNode_children_offset(f, index).value, 0,
                       FNode_child_count(f, index).value)
    ELSE <<>>

\* start_query_hamming_u64: the root is the node at index 0, if its key decodes
FileView(f) ==
    [key |-> [i \in 1 .. (Len(f.keys) \div f.config.key) |-> FNode_key(f, i - 1).value],
     kids |-> [i \in 1 .. (Len(f.keys) \div f.config.key) |-> QueryNode_children_vector(f, i - 1)],
     root |-> IF FNode_key(f, 0) = NoValue THEN 0 ELSE 1]

\* the input files: every short sequence of small keys, and the sequences
\* 0, 1, ..., n - 1 of the largest node counts
Ramp(n) == [i \in 1 .. n |-> i - 1]

Inputs ==
    UNION {[1 .. n -> 0 .. MaxFileKey] : n \in 1 .. MaxInputLen}
        \cup {Ramp(n) : n \in (MaxFileNodes - 2) .. MaxFileNodes}

Needles == (0 .. MaxFileKey) \cup ((MaxFileNodes - 4) .. MaxFileNodes)

\* what writing a value wider than its entry does: the entry keeps the low
\* bytes, or the write fails and with it the rendering
Overflows == {"truncate", "fail"}

\* Step 1 of main: tree.add of every number of the input file
ReadInput(numbers) ==
    /\ nodes = <<>>
    /\ LET t == BuildTree(EmptyTree, "hamming", numbers)
       IN  /\ nodes' = t.nodes
           /\ max_depth' = t.max_depth
           /\ panicked' = t.panicked
    /\ UNCHANGED <<metric, last, metricVars, codecVars, mmapVars, writerVars, fileVars, readVars, growVars>>

\* Step 2 of main
Render(overflow) ==
    /\ nodes # <<>>
    /\ ~panicked
    /\ file.state = "none"
    /\ LET w == Rendered(nodes)
       IN  file' = IF w.overflow /\ overflow = "fail"
                   THEN [NoFile EXCEPT !.state = "failed"]
                   ELSE [state |-> "rendered", config |-> FixedKeysConfig(Len(nodes)),
                         dist |-> w.dist, child_index |-> w.child_index,
                         num_children |-> w.num_children, keys |-> w.keys]
    /\ UNCHANGED <<answer, treeVars, metricVars, codecVars, mmapVars, writerVars, readVars, growVars>>

\* one query, answered by the tree in memory and by the rendered arrays
Query(needle, tolerance) ==
    /\ file.state = "rendered"
    /\ answer = None
    /\ answer' = [op |-> "query", needle |-> needle, tolerance |-> tolerance,
                  ram |-> FindEach(RamView(nodes), "hamming", needle, tolerance),
                  file |-> FindEach(FileView(file), "hamming", needle, tolerance)]
    /\ UNCHANGED <<file, treeVars, metricVars, codecVars, mmapVars, writerVars, readVars, growVars>>

ReadInputAny == \E numbers \in Inputs : ReadInput(numbers)

RenderAny == \E overflow \in Overflows : Render(overflow)

QueryAny == \E needle \in Needles, tolerance \in 0 .. MaxTol : Query(needle, tolerance)

InitFile == TreeIdle /\ MetricIdle /\ CodecIdle /\ MmapIdle /\ WriterIdle /\ FileIdle /\ ReadIdle /\ GrowIdle

NextFile == ReadInputAny \/ RenderAny \/ QueryAny

SpecFile == InitFile /\ [][NextFile]_vars

\* C3: the tree is rendered into the four arrays, and a query of the arrays
\* through the file-backed view reports the same set of (distance, key)
\* pairs as the same query of the tree in memory.
C3_RoundTrip ==
    /\ file.state # "failed"
    /\ answer # None => Range(answer.file) = Range(answer.ram)

\* the round trip of the trees whose indices fit one byte
C3_SmallRoundTrip ==
    (answer # None /\ Len(nodes) <= 256) => Range(answer.file) = Range(answer.ram)

(***************************************************************************)
(* The file prefix the writer produces, and Header::read.                  *)
(***************************************************************************)
\* "BKTREE: 0000" and "SHA256", as bytes
MAGIC_VERSION == <<66, 75, 84, 82, 69, 69, 58, 32, 48, 48, 48, 48>>
HASH_HEADER_NAME == <<83, 72, 65, 50, 53, 54>>

Newline == 10
Colon == 58
Space == 32

\* Sha256 of the bytes hashed, as a number: distinct inputs of the bodies
\* considered have distinct digests, and every other input has another one
RECURSIVE DigestCode(_)
DigestCode(bytes) ==
    IF bytes = <<>> THEN 0
    ELSE (Head(bytes) + 1) + (MaxByte + 2) * DigestCode(Tail(bytes))

Sha256(bytes) ==
    IF Len(bytes) <= MaxBodyLen /\ \A i \in DOMAIN bytes : bytes[i] \in 0 .. MaxByte
    THEN DigestCode(bytes)
    ELSE (MaxByte + 2) ^ (MaxBodyLen + 1)

\* one lower-case hexadecimal digit
HexDigit(v) == IF v < 10 THEN 48 + v ELSE 87 + v

\* {:064x} and {:x} of a digest: its 64 hexadecimal digits (the digests
\* here are below 16^7)
LowerHex(digest) ==
    [i \in 1 .. 64 |-> IF 64 - i >= 7 THEN HexDigit(0)
                        ELSE HexDigit((digest \div (16 ^ (64 - i))) % 16)]

\* Steps 4 and 5 of main: the magic line, the checksum line over everything
\* that follows it, and the header and sections (body)
WrittenFile(body) ==
    MAGIC_VERSION \o <<Newline>>
        \o HASH_HEADER_NAME \o <<Colon, Space>> \o LowerHex(Sha256(body)) \o <<Newline>>
        \o body

\* BufRead::read_until from position pos (1-based): the bytes up to and
\* including the first delim, or up to the end of the file
read_until(bytes, pos, delim) ==
    LET found == {i \in pos .. Len(bytes) : bytes[i] = delim}
        stop == IF found = {} THEN Len(bytes)
                ELSE CHOOSE i \in found : \A j \in found : i <= j
    IN  [buf |-> SubSeq(bytes, pos, stop), next |-> stop + 1]

\* TrimStart for Vec<u8>: indexes until a byte differs from val, and panics
\* past the end when none does
trim_start_matches(bytes, val) ==
    LET other == {i \in DOMAIN bytes : bytes[i] # val}
    IN  IF other = {} THEN Panic
        ELSE Some(SubSeq(bytes, CHOOSE i \in other : \A j \in other : i <= j, Len(bytes)))

Ok == [kind |-> "ok"]
Err(what) == [kind |-> "err", what |-> what]

\* Header::read
HeaderRead(bytes, verify) ==
    LET version == read_until(bytes, 1, Newline)
        checksum_type == read_until(bytes, version.next, Colon)
        checksum == read_until(bytes, checksum_type.next, Newline)
        trimmed == trim_start_matches(checksum.buf, Space)
        found == LowerHex(Sha256(SubSeq(bytes, checksum.next, Len(bytes))))
    IN  IF version.buf # MAGIC_VERSION THEN Err("Unknown file format")
        ELSE IF checksum_type.buf # HASH_HEADER_NAME THEN Err("Unknown checksum format")
        ELSE IF trimmed = Panic THEN Panic
        ELSE IF verify /\ found # trimmed.value THEN Err("Checksum failure")
        ELSE Ok

\* the header and sections of a written file, abbreviated to a few bytes
Bodies == UNION {[1 .. n -> 0 .. MaxByte] : n \in 1 .. MaxBodyLen}

\* another value for the byte at position pos
ChangedByte(byte, pos) ==
    IF pos > PREFIX_SIZE THEN (byte + 1) % (MaxByte + 1) ELSE byte + 1

ChangedAt(bytes, pos) == [bytes EXCEPT ![pos] = ChangedByte(bytes[pos], pos)]

\* the file is one the writer produced, or such a file with one byte changed,
\* or such a file cut short inside its prefix
ReadInit ==
    /\ verify_checksum \in BOOLEAN
    /\ header_read = None
    /\ \E body \in Bodies :
          \/ /\ bkfile = WrittenFile(body)
             /\ changed = 0
          \/ \E pos \in 1 .. (PREFIX_SIZE + Len(body)) :
                /\ bkfile = ChangedAt(WrittenFile(body), pos)
                /\ changed = pos
          \/ \E keep \in 0 .. PREFIX_SIZE :
                /\ bkfile = SubSeq(WrittenFile(body), 1, keep)
                /\ changed = 0

ReadHeader ==
    /\ header_read = None
    /\ header_read' = HeaderRead(bkfile, verify_checksum)
    /\ UNCHANGED <<bkfile, verify_checksum, changed, treeVars, metricVars, codecVars,
                   mmapVars, writerVars, fileVars, growVars>>

InitRead ==
    ReadInit /\ TreeIdle /\ MetricIdle /\ CodecIdle /\ MmapIdle /\ WriterIdle /\ FileIdle /\ GrowIdle

NextRead == ReadHeader

SpecRead == InitRead /\ [][NextRead]_vars

\* the parts of a file as the format lays them out: the first line, the tag
\* before the colon of the second line, the digest after "tag: " and the
\* bytes the digest is taken over
FirstLine(bytes) == read_until(bytes, 1, Newline)

SecondLine(bytes) == read_until(bytes, FirstLine(bytes).next, Newline)

TagOf(bytes) ==
    LET line == SecondLine(bytes).buf
        colons == {i \in DOMAIN line : line[i] = Colon}
    IN  IF colons = {} THEN line
        ELSE SubSeq(line, 1, (CHOOSE i \in colons : \A j \in colons : i <= j) - 1)

RecordedDigest(bytes) ==
    LET line == SecondLine(bytes).buf
    IN  SubSeq(line, Len(TagOf(bytes)) + 3, Len(line) - 1)

MagicLineOk(bytes) == FirstLine(bytes).buf = MAGIC_VERSION \o <<Newline>>

TagOk(bytes) == TagOf(bytes) = HASH_HEADER_NAME

DigestOk(bytes) ==
    RecordedDigest(bytes)
        = LowerHex(Sha256(SubSeq(bytes, SecondLine(bytes).next, Len(bytes))))

\* C11: Header::read rejects a file exactly when its first line is not the
\* magic line, its checksum tag is not SHA256, or (verify_checksum only) the
\* digest of the remainder differs from the recorded one; a file the writer
\* produced is accepted.
C11_ReadRejectsExactly ==
    header_read # None =>
        (header_read = Ok <=>
            /\ MagicLineOk(bkfile)
            /\ TagOk(bkfile)
            /\ verify_checksum => DigestOk(bkfile))

\* C12: a verified read of a written file in which one byte after the
\* prefix (descriptor, padding or section) was changed fails with the
\* checksum error.
C12_ChangedByteDetected ==
    (header_read # None /\ verify_checksum /\ changed > PREFIX_SIZE) =>
        header_read = Err("Checksum failure")

(***************************************************************************)
(* The string trees of the tests can_add_find_exact_match and              *)
(* can_add_find_distant_match.                                             *)
(***************************************************************************)
ExactMatchKeys == <<"foo", "bar", "baz", "left", "ship">>

DistantMatchKeys == <<"quux", "foo", "bar", "baz", "left", "ship">>

TestScripts == {ExactMatchKeys, DistantMatchKeys}

NodeKeys == [i \in 1 .. Len(nodes) |-> nodes[i].key]

StringsInit ==
    /\ metric = "strlen"
    /\ nodes = <<>>
    /\ max_depth = 0
    /\ panicked = FALSE
    /\ last = NoCall

\* the next tree.add of a test: the keys added so far are the start of its list
AddScripted(script) ==
    /\ ~panicked
    /\ Len(nodes) < Len(script)
    /\ NodeKeys = SubSeq(script, 1, Len(nodes))
    /\ LET t == AddTo([nodes |-> nodes, max_depth |-> max_depth, panicked |-> FALSE],
                      metric, script[Len(nodes) + 1])
       IN  /\ nodes' = t.nodes
           /\ max_depth' = t.max_depth
           /\ panicked' = t.panicked
    /\ last' = [op |-> "add"]
    /\ UNCHANGED <<metric, metricVars, codecVars, mmapVars, writerVars, fileVars, readVars, growVars>>

AddScriptedAny == \E script \in TestScripts : AddScripted(script)

FindScriptedAny ==
    \E needle \in Range(DistantMatchKeys), tolerance \in 0 .. MaxTol : Find(needle, tolerance)

InitStrings ==
    /\ StringsInit /\ MetricIdle /\ CodecIdle /\ MmapIdle /\ WriterIdle /\ FileIdle
    /\ ReadIdle /\ GrowIdle

NextStrings == AddScriptedAny \/ FindScriptedAny

SpecStrings == InitStrings /\ [][NextStrings]_vars

\* the keys of the reports of the last find, in report order
ReportedKeys == [i \in 1 .. Len(last.out) |-> last.out[i][2]]

\* C13: on the tree of foo, bar, baz, left, ship, find("foo", 0) reports
\* exactly foo, bar, baz; on the tree of quux, foo, bar, baz, left, ship,
\* find("foo", 1) reports exactly the six keys; each key once.
C13_StringScenario ==
    (last.op = "find" /\ last.needle = "foo") =>
        /\ (NodeKeys = ExactMatchKeys /\ last.tolerance = 0) =>
              /\ Len(last.out) = 3
              /\ Range(ReportedKeys) = {"foo", "bar", "baz"}
        /\ (NodeKeys = DistantMatchKeys /\ last.tolerance = 1) =>
              /\ Len(last.out) = 6
              /\ Range(ReportedKeys) = Range(DistantMatchKeys)

C13_Witness ==
    /\ last.op = "find"
    /\ last.needle = "foo"
    /\ last.tolerance = 1
    /\ NodeKeys = DistantMatchKeys
    /\ Len(last.out) = 6

(***************************************************************************)
(* Writing and reading back the children offset of an F64BNode8.           *)
(***************************************************************************)
\* a node buffer whose first node holds the children offset 65536 in its
\* four-byte field
WideNodes == <<8, 5, 0, 0, 0, 0, 1, 0, 4, 3, 0, 0, 0, 0, 0, 0>>

ChildOffsets == {0, 1, 255, 256, 65535, 65536, 65537, 16777216}

\* LittleEndian::write_u16: the first two bytes of the slice at start
WriteU16(buf, start, value) ==
    [buf EXCEPT ![start + 1] = value % 256, ![start + 2] = value \div 256]

\* set_child_offset: [buf, result]; offset as u16 keeps the low 16 bits
F64_set_child_offset(nbuf, off, child_offset) ==
    IF get_slice(nbuf, off, 4, 4) = NoValue
    THEN [buf |-> nbuf, result |-> Err("out of space for child offset")]
    ELSE [buf |-> WriteU16(nbuf, off + 4, child_offset % 65536), result |-> Ok]

CodecMutInit ==
    /\ node_buffer \in {TestNodes, WideNodes}
    /\ key_buffer = TestKeys
    /\ offset \in {0, encoding_size, 2 * encoding_size}
    /\ decoded = None

SetChildOffset(child_offset) ==
    /\ LET set == F64_set_child_offset(node_buffer, offset, child_offset)
       IN  /\ node_buffer' = set.buf
           /\ decoded' = [op |-> "set_child_offset", value |-> child_offset,
                          result |-> set.result]
    /\ UNCHANGED <<key_buffer, offset, treeVars, metricVars, mmapVars, writerVars, fileVars,
                   readVars, growVars>>

SetChildOffsetAny == \E child_offset \in ChildOffsets : SetChildOffset(child_offset)

InitCodecMut ==
    /\ CodecMutInit /\ TreeIdle /\ MetricIdle /\ MmapIdle /\ WriterIdle /\ FileIdle
    /\ ReadIdle /\ GrowIdle

NextCodecMut == SetChildOffsetAny \/ ReadAny

SpecCodecMut == InitCodecMut /\ [][NextCodecMut]_vars

\* the children offset stored in the four-byte field of the node at off
StoredChildrenOffset(nbuf, off) == FromLittleEndian(SubSeq(nbuf, off + 5, off + 8))

\* C14: children_offset() of a node inside the buffer returns no value
\* exactly when the stored children offset is 0, and the stored offset
\* otherwise.
C14_ZeroMeansNoChildren ==
    (decoded.op = "read" /\ decoded.field = "children_offset"
        /\ Len(node_buffer) >= offset + encoding_size) =>
        LET stored == StoredChildrenOffset(node_buffer, offset)
        IN  /\ decoded.result = NoValue <=> stored = 0
            /\ stored # 0 => decoded.result = Some(stored)

\* C15: children_offset() right after a successful set_child_offset(o),
\* o > 0, on the same node returns o.
C15_ChildOffsetRoundTrip ==
    [][(/\ decoded.op = "set_child_offset"
        /\ decoded.result = Ok
        /\ decoded.value > 0
        /\ decoded'.op = "read"
        /\ decoded'.field = "children_offset") => decoded'.result = Some(decoded.value)
      ]_vars

(***************************************************************************)
(* The growth policy of the extensible mapped buffer on sizes around and   *)
(* above 1 GiB.  A size is a pair [gib, rem] standing for                  *)
(* gib * ONE_GIB + rem bytes, 0 <= rem < ONE_GIB.                          *)
(***************************************************************************)
MaxGib == 3

Wide(gib, rem) == [gib |-> gib, rem |-> rem]

WideLess(a, b) == a.gib < b.gib \/ (a.gib = b.gib /\ a.rem < b.rem)

WideMax(a, b) == IF WideLess(a, b) THEN b ELSE a

\* cur_size + ONE_GIB
WidePlusGib(a) == Wide(a.gib + 1, a.rem)

\* cur_size * 2
WideTwice(a) == Wide(2 * a.gib + ((2 * a.rem) \div ONE_GIB), (2 * a.rem) % ONE_GIB)

\* a variant that doubles above 1 GiB as well
new_size_doubling(cur_size, len) == WideMax(len, WideTwice(cur_size))

\* let new_size = max(len, if cur_size > ONE_GIB {..} else {..})
new_size(cur_size, len) ==
    WideMax(len, IF WideLess(Wide(1, 0), cur_size)
                 THEN WidePlusGib(cur_size)
                 ELSE WideTwice(cur_size))

WideSizes == {Wide(gib, rem) : gib \in 0 .. MaxGib, rem \in {0, 1, ONE_GIB - 1}}

\* ExtensibleMmapMut::on(backing): the mapping covers the file
GrowthInit ==
    \E size \in WideSizes :
        growth = [op |-> "on", backing |-> size, ram |-> size, cur_size |-> size,
                  len |-> size, ok |-> TRUE, steps |-> <<>>]

\* the system calls of a growing ensure_capacity, in the order they are
\* made, up to the one that fails
SystemCalls(io) ==
    IF io = "set_len" THEN <<"set_len">>
    ELSE IF io = "flush_async" THEN <<"set_len", "flush_async">>
    ELSE <<"set_len", "flush_async", "map_mut">>

\* ensure_capacity(len); io names the system call that fails, if one does
EnsureCapacityWide(len, io) ==
    /\ growth # None
    /\ growth.ram.gib <= MaxGib
    /\ LET cur_size == growth.ram
           grows == WideLess(cur_size, len)
           resized == grows /\ io # "set_len"
           mapped == grows /\ io = "ok"
       IN  growth' = [op |-> "ensure_capacity",
                      backing |-> IF resized THEN new_size(cur_size, len) ELSE growth.backing,
                      ram |-> IF mapped THEN new_size(cur_size, len) ELSE cur_size,
                      cur_size |-> cur_size,
                      len |-> len,
                      ok |-> ~grows \/ io = "ok",
                      steps |-> IF grows THEN SystemCalls(io) ELSE <<>>]
    /\ UNCHANGED <<treeVars, metricVars, codecVars, mmapVars, writerVars, fileVars, readVars>>

EnsureCapacityWideAny == \E len \in WideSizes, io \in IoOutcomes : EnsureCapacityWide(len, io)

InitGrowth ==
    /\ GrowthInit /\ TreeIdle /\ MetricIdle /\ CodecIdle /\ MmapIdle /\ WriterIdle
    /\ FileIdle /\ ReadIdle

NextGrowth == EnsureCapacityWideAny

SpecGrowth == InitGrowth /\ [][NextGrowth]_vars

\* a successful ensure_capacity call
Ensured == growth # None /\ growth.op = "ensure_capacity" /\ growth.ok

BelowThreshold(c) == c.gib = 0
AboveThreshold(c) == c.gib > 1 \/ (c.gib = 1 /\ c.rem > 0)
Grew == WideLess(growth.cur_size, growth.len)
IsLarger(a, b, c) == (c = a \/ c = b) /\ ~WideLess(c, a) /\ ~WideLess(c, b)
\* 2c for a capacity c below 1 GiB
TwiceBelow(c) ==
    IF c.rem + c.rem >= ONE_GIB THEN Wide(1, c.rem + c.rem - ONE_GIB) ELSE Wide(0, c.rem + c.rem)

\* C16 (as stated): a call that must grow a buffer of capacity c leaves
\* the capacity max(needed, 2c) while c is below 1 GiB and c + 1 GiB once c
\* is above it; a call with c >= needed leaves the capacity unchanged.
C16_GrowthPolicy ==
    Ensured =>
        /\ ~Grew => growth.ram = growth.cur_size
        /\ (Grew /\ BelowThreshold(growth.cur_size)) =>
              IsLarger(growth.len, TwiceBelow(growth.cur_size), growth.ram)
        /\ (Grew /\ AboveThreshold(growth.cur_size)) =>
              growth.ram = Wide(growth.cur_size.gib + 1, growth.cur_size.rem)

\* C16 (amended): as above, but once c is above 1 GiB the new capacity is
\* max(needed, c + 1 GiB).
C16_GrowthPolicyAmended ==
    Ensured =>
        /\ ~Grew => growth.ram = growth.cur_size
        /\ (Grew /\ BelowThreshold(growth.cur_size)) =>
              IsLarger(growth.len, TwiceBelow(growth.cur_size), growth.ram)
        /\ (Grew /\ AboveThreshold(growth.cur_size)) =>
              IsLarger(growth.len, Wide(growth.cur_size.gib + 1, growth.cur_size.rem),
                       growth.ram)

C16_Witness ==
    /\ Ensured /\ Grew /\ AboveThreshold(growth.cur_size)
    /\ growth.len.gib > growth.cur_size.gib + 1
    /\ growth.ram = growth.len

(***************************************************************************)
(* The descent of add, its distance-0 slot and its assertions.             *)
(***************************************************************************)
\* the node a descent stops at when it moves into the child at slot
\* d = distance(current.key, query) exactly when that child exists and the
\* query is not equal to the current node's key
RECURSIVE StopOfRule(_, _, _, _)
StopOfRule(ns, m, cur, query) ==
    LET d == Distance(m, ns[cur].key, query) IN
    IF d + 1 <= Len(ns[cur].children) /\ ns[cur].children[d + 1] # 0
            /\ ns[cur].key # query
    THEN StopOfRule(ns, m, ns[cur].children[d + 1], query)
    ELSE cur

\* C17: add stops at the node the descent rule names (it moves into the
\* child at slot d exactly when that child exists and the query differs
\* from the current key), and it attaches a node only if the key of that
\* node differs from the query.
C17_DescentRule ==
    [][\A query \in KeysOf(metric) :
          (Add(query) /\ nodes # <<>>) =>
              LET stop == StopOfRule(nodes, metric, 1, query)
              IN  /\ Descend(nodes, metric, 1, 0, query).cur = stop
                  /\ Len(nodes') > Len(nodes) => nodes[stop].key # query
      ]_vars

\* C18: a child at slot 0 holds a key equal to the key of its node (a node
\* has one child vector entry per slot, so at most one child at slot 0).
C18_DistanceZero ==
    \A i \in 1 .. Len(nodes) :
        (nodes[i].children # <<>> /\ nodes[i].children[1] # 0) =>
            nodes[nodes[i].children[1]].key = nodes[i].key

\* C19: no add fails the assertion of add or of set_child_node, and no add
\* changes an occupied slot of any node.
C19_SlotsNeverShared ==
    [][/\ ~panicked'
       /\ \A i \in 1 .. Len(nodes) :
             \A p \in 1 .. Len(nodes[i].children) :
                 nodes[i].children[p] # 0 =>
                     /\ i <= Len(nodes')
                     /\ p <= Len(nodes'[i].children)
                     /\ nodes'[i].children[p] = nodes[i].children[p]
      ]_vars

\* an add that put a second child under a root that already had one, in a
\* string tree, where keys at distance 0 of each other are stored
C19_Witness ==
    /\ last.op = "add"
    /\ metric = "strlen"
    /\ Len(nodes) >= 3
    /\ Len(children_vector(nodes[1])) >= 2
    /\ nodes[1].children[1] # 0

(***************************************************************************)
(* The report order of find.                                               *)
(***************************************************************************)
\* the reports of the subtree at node i, reached at distance dist from the
\* needle: the node itself first when it matches, then the subtrees of its
\* children inside the window, from slot `slot` upwards
RECURSIVE NodeFirst(_, _, _, _, _, _)
NodeFirst(ns, needle, tolerance, i, dist, slot) ==
    LET own == IF slot = 0 /\ dist <= tolerance THEN <<<<dist, ns[i].key>>>> ELSE <<>>
        low == IF dist < tolerance THEN 0 ELSE dist - tolerance
        inWindow == low <= slot /\ slot <= dist + tolerance
    IN  IF slot >= Len(ns[i].children) THEN own
        ELSE own
             \o (IF ns[i].children[slot + 1] # 0 /\ inWindow
                 THEN NodeFirst(ns, needle, tolerance, ns[i].children[slot + 1],
                                StrLenDistance(ns[ns[i].children[slot + 1]].key, needle), 0)
                 ELSE <<>>)
             \o NodeFirst(ns, needle, tolerance, i, dist, slot + 1)

\* C20: find reports a matching node before the matches of its subtree, and
\* the subtrees of the in-window children in the order of their slots, the
\* smallest slot first; find("foo", 1) on the tree of quux, foo, bar, baz,
\* left, ship reports quux, left, ship, foo, bar, baz.
C20_ReportOrder ==
    (last.op = "find" /\ nodes # <<>>) =>
        /\ last.out = NodeFirst(nodes, last.needle, last.tolerance, 1,
                                StrLenDistance(nodes[1].key, last.needle), 0)
        /\ (NodeKeys = DistantMatchKeys /\ last.needle = "foo" /\ last.tolerance = 1) =>
              ReportedKeys = <<"quux", "left", "ship", "foo", "bar", "baz">>

\* the find of the example: two subtrees of the root are reported, each of
\* them with more than one match
C20_Witness ==
    /\ last.op = "find"
    /\ NodeKeys = DistantMatchKeys
    /\ last.needle = "foo"
    /\ last.tolerance = 1
    /\ ReportedKeys[2] = "left"
    /\ ReportedKeys[4] = "foo"

(***************************************************************************)
(* Pre-order traversal of the in-memory tree.                              *)
(***************************************************************************)
\* the occupied child slots of a node
OccupiedSlots(node) == {d \in 0 .. (Len(node.children) - 1) : node.children[d + 1] # 0}

\* the position of the callback made for node n
CalledAt(out, n) == CHOOSE i \in 1 .. Len(out) : out[i].node = n

\* C21: preorder_each calls back once per node, the root first and every
\* node before its children (so before every descendant), with the node's
\* slot in its parent (0 for the root), the number of its occupied child
\* slots and its key; on the empty tree it never calls back.
C21_PreOrder ==
    last.op = "preorder" =>
        /\ Len(last.out) = Len(nodes)
        /\ \A n \in 1 .. Len(nodes) : \E i \in 1 .. Len(last.out) : last.out[i].node = n
        /\ nodes # <<>> => (last.out[1].node = 1 /\ last.out[1].dist = 0)
        /\ \A i \in 1 .. Len(last.out) :
              LET n == last.out[i].node
              IN  /\ last.out[i].key = nodes[n].key
                  /\ last.out[i].children = Cardinality(OccupiedSlots(nodes[n]))
                  /\ \A d \in OccupiedSlots(nodes[n]) :
                        LET j == CalledAt(last.out, nodes[n].children[d + 1])
                        IN  j > i /\ last.out[j].dist = d

\* a traversal of a full tree in which some child has a child of its own
\* and the root has two children
C21_Witness ==
    /\ last.op = "preorder"
    /\ Len(nodes) = MaxNodes
    /\ Len(last.out) = MaxNodes
    /\ \E i \in 2 .. Len(last.out) : last.out[i].children > 0
    /\ last.out[1].children >= 2

(***************************************************************************)
(* The layout of the rendered arrays.                                      *)
(***************************************************************************)
\* the number of occupied slots of node below slot d
RankOf(node, d) == Cardinality({e \in OccupiedSlots(node) : e < d})

\* the places the arrays give the nodes of the subtree of node n, itself at
\* index and at slot `slot` of its parent: child i of a node is at the child
\* index stored in that node plus i
RECURSIVE PlacesOf(_, _, _, _, _)
PlacesOf(f, ns, n, index, slot) ==
    LET stored == ReadEntry(f.child_index, index, f.config.child_index)
    IN  {[node |-> n, index |-> index, slot |-> slot]}
            \cup UNION {PlacesOf(f, ns, ns[n].children[d + 1],
                                 stored.value + RankOf(ns[n], d), d)
                            : d \in OccupiedSlots(ns[n])}

\* C22: in the rendered arrays every node has one index in 0 .. N - 1, the
\* root index 0; the children of a node are at the child index stored in
\* it, child i at that index plus i, each after its parent; the stored
\* distance of a node is its slot in its parent, its stored child count the
\* number of its children, its stored key its key.
C22_RenderedLayout ==
    file.state = "rendered" =>
        LET places == PlacesOf(file, nodes, 1, 0, 0)
        IN  /\ {p.index : p \in places} = 0 .. (Len(nodes) - 1)
            /\ Cardinality(places) = Len(nodes)
            /\ \A p \in places :
                  /\ FNode_key(file, p.index) = Some(nodes[p.node].key)
                  /\ FNode_distance(file, p.index) = Some(p.slot)
                  /\ FNode_child_count(file, p.index)
                        = Some(Cardinality(OccupiedSlots(nodes[p.node])))
                  /\ \A d \in OccupiedSlots(nodes[p.node]) :
                        \E c \in places :
                            /\ c.node = nodes[p.node].children[d + 1]
                            /\ c.index > p.index

\* the layout holds for the trees of at most 256 nodes
C22_SmallLayout == Len(nodes) <= 256 => C22_RenderedLayout

(***************************************************************************)
(* The rendering taken one call of walk at a time: file holds the arrays,  *)
(* the allocator index, the pending calls and the statements of the call   *)
(* just made.                                                              *)
(***************************************************************************)
\* main: alloc.alloc(1) for the root and the first call of walk pending
StartWalk ==
    /\ nodes # <<>>
    /\ ~panicked
    /\ file.state = "none"
    /\ file' = [state |-> "walking",
                config |-> FixedKeysConfig(Len(nodes)),
                keys |-> Zeros(Len(nodes) * 8),
                dist |-> Zeros(Len(nodes)),
                child_index |-> Zeros(Len(nodes) * byte_size_for_max_val(Len(nodes))),
                num_children |-> Zeros(Len(nodes) * byte_size_for_max_val(Len(nodes))),
                index |-> 1,
                events |-> <<[op |-> "alloc", index |-> 0, next |-> 1]>>,
                overflow |-> FALSE,
                stack |-> <<[index |-> 0, dist |-> 0, node |-> 1]>>]
    /\ UNCHANGED <<answer, treeVars, metricVars, codecVars, mmapVars, writerVars, readVars, growVars>>

\* the next call of walk
WalkStep(overflow) ==
    /\ file.state = "walking"
    /\ file.stack # <<>>
    /\ LET w == WalkCall(nodes, file.config, file)
       IN  file' = IF w.overflow /\ overflow = "fail"
                   THEN [NoFile EXCEPT !.state = "failed"]
                   ELSE [state |-> "walking", config |-> file.config] @@ w
    /\ UNCHANGED <<answer, treeVars, metricVars, codecVars, mmapVars, writerVars, readVars, growVars>>

WalkStepAny == \E overflow \in Overflows : WalkStep(overflow)

InitWalk == InitFile

NextWalk == ReadInputAny \/ StartWalk \/ WalkStepAny

SpecWalk == InitWalk /\ [][NextWalk]_vars

WriteOps == {"set_key", "set_dist", "set_num_children", "set_child_index"}

\* C23: every write of a call of walk targets an index below the
\* allocator's next index at the time of the write, through a mirror taken
\* by index after the last alloc of the call.
C23_ReservedBeforeWrite ==
    file.state = "walking" =>
        \A k \in 1 .. Len(file.events) :
            file.events[k].op \in WriteOps =>
                /\ file.events[k].index < file.events[k].next
                /\ \E v \in 1 .. (k - 1) :
                      /\ file.events[v].op = "fnode"
                      /\ file.events[v].index = file.events[k].index
                      /\ \A a \in (v + 1) .. k : file.events[a].op # "alloc"

\* a call of walk for a node that is not the root and has children: it
\* reserved their indices, then wrote its own fields
C23_Witness ==
    /\ file.state = "walking"
    /\ Len(file.events) = 6
    /\ file.events[1].op = "alloc"
    /\ file.events[6].op = "set_child_index"
    /\ file.events[6].index > 0

(***************************************************************************)
(* The order of the steps of a growth.                                     *)
(***************************************************************************)
\* call `first` is made, and made before `second`, whenever `second` is made
Precedes(steps, first, second) ==
    \A j \in 1 .. Len(steps) :
        steps[j] = second => \E i \in 1 .. (j - 1) : steps[i] = first

\* C24: a growing ensure_capacity flushes the mapping before it resizes the
\* file and resizes the file before it maps it again; after a successful
\* growth the mapped capacity is at least the requested length.
C24_GrowthStepOrder ==
    (growth # None /\ growth.op = "ensure_capacity" /\ Grew) =>
        /\ Precedes(growth.steps, "flush_async", "set_len")
        /\ Precedes(growth.steps, "set_len", "map_mut")
        /\ growth.ok => ~WideLess(growth.ram, growth.len)

(***************************************************************************)
(* The width chosen for the child-index entries.                           *)
(***************************************************************************)
\* C25: the child-index width main chooses for a tree of N nodes is the
\* smallest number of bytes w in 1 .. 8 with N < 256^w.
C25_WidthSelection ==
    file.state = "rendered" =>
        LET w == file.config.child_index
        IN  /\ w \in 1 .. 8
            /\ w >= 4 \/ Len(nodes) < 256 ^ w
            /\ w > 1 => Len(nodes) >= 256 ^ (w - 1)

(***************************************************************************)
(* Queries of a file whose distance or key section is shorter than its     *)
(* node count requires.                                                    *)
(***************************************************************************)
CutSections == {"dist", "keys"}

\* the file as bkfind maps it when the section table gives `section` only
\* the bytes of its first `keep` entries
Cut(section, keep) ==
    /\ file.state = "rendered"
    /\ keep * file.config[IF section = "keys" THEN "key" ELSE section] < Len(file[section])
    /\ file' = [[file EXCEPT ![section] =
                     SubSeq(@, 1, keep * file.config[IF section = "keys" THEN "key" ELSE section])]
                 EXCEPT !.state = "cut"]
    /\ UNCHANGED <<answer, treeVars, metricVars, codecVars, mmapVars, writerVars, readVars, growVars>>

\* one search of the mapped file: start_query_hamming_u64 and the find over
\* QueryNode; neither returns a Result, so the search returns normally
\* with the reports it made
QueryCut(needle, tolerance) ==
    /\ file.state = "cut"
    /\ answer = None
    /\ answer' = [op |-> "query", needle |-> needle, tolerance |-> tolerance,
                  ram |-> FindEach(RamView(nodes), "hamming", needle, tolerance),
                  file |-> FindEach(FileView(file), "hamming", needle, tolerance),
                  result |-> Ok]
    /\ UNCHANGED <<file, treeVars, metricVars, codecVars, mmapVars, writerVars, readVars, growVars>>

CutAny == \E section \in CutSections, keep \in 0 .. MaxInputLen : Cut(section, keep)

QueryCutAny == \E needle \in Needles, tolerance \in 0 .. MaxTol : QueryCut(needle, tolerance)

InitCut == InitFile

NextCut == ReadInputAny \/ RenderAny \/ CutAny \/ QueryCutAny

SpecCut == InitCut /\ [][NextCut]_vars

\* some node of the file has a child whose distance or key does not decode
ChildCutOff(f) ==
    \E index \in 0 .. ((Len(f.num_children) \div f.config.num_children) - 1) :
        /\ FNode_children_offset(f, index) # NoValue
        /\ \E i \in 0 .. (FNode_child_count(f, index).value - 1) :
              \/ FNode_distance(f, FNode_children_offset(f, index).value + i) = NoValue
              \/ FNode_key(f, FNode_children_offset(f, index).value + i) = NoValue

\* C26: a search of a file in which a child's distance or key cannot be
\* decoded ends with a format error; it does not return normally with
\* that child and its subtree left out.
C26_TruncationReported ==
    (answer # None /\ answer.op = "query" /\ file.state = "cut" /\ ChildCutOff(file)) =>
        /\ answer.result # Ok
        /\ answer.result.kind = "err"

(***************************************************************************)
(* The node cache of a query (NodeStash).  Each query has its own cache,   *)
(* a map from node index to the boxed node made for it; a boxed node is    *)
(* [key, serial], the serial telling the boxes made apart.  answer holds   *)
(* the caches of the queries, the number of boxes made so far and the last *)
(* call with the nodes it returned.                                        *)
(***************************************************************************)
MaxStashCalls == 3

Queries == {1, 2}

EmptyStash == [index \in {} |-> 0]

\* NodeStash::stash inserting a new box whether or not the index is cached
stash_always(st, made, index, key) ==
    [stash |-> [i \in DOMAIN st \cup {index} |->
                    IF i = index THEN [key |-> key, serial |-> made + 1] ELSE st[i]],
     made |-> made + 1]

\* NodeStash::stash: the cache and the number of boxes made after the call
stash(st, made, index, key) ==
    IF index \in DOMAIN st
    THEN [stash |-> st, made |-> made]
    ELSE [stash |-> [i \in DOMAIN st \cup {index} |->
                        IF i = index THEN [key |-> key, serial |-> made + 1] ELSE st[i]],
          made |-> made + 1]

\* the loop of QueryNode::children_vector from child i on: every child
\* whose distance and key decode is stashed and returned
RECURSIVE StashChildren(_, _, _, _, _)
StashChildren(f, c, base, i, child_count) ==
    IF i >= child_count THEN c
    ELSE IF FNode_distance(f, base + i) # NoValue /\ FNode_key(f, base + i) # NoValue
         THEN LET put == stash(c.stash, c.made, base + i, FNode_key(f, base + i).value)
              IN  StashChildren(f,
                      [stash |-> put.stash, made |-> put.made,
                       returned |-> Append(c.returned,
                                           [index |-> base + i, node |-> put.stash[base + i]])],
                      base, i + 1, child_count)
         ELSE StashChildren(f, c, base, i + 1, child_count)

Stash_children_vector(f, st, made, index) ==
    IF FNode_children_offset(f, index) # NoValue /\ FNode_child_count(f, index) # NoValue
    THEN StashChildren(f, [stash |-> st, made |-> made, returned |-> <<>>],
                       FNode_children_offset(f, index).value, 0,
                       FNode_child_count(f, index).value)
    ELSE [stash |-> st, made |-> made, returned |-> <<>>]

\* the loop of QueryNode::child_at from child i on: the first child at the
\* distance whose key decodes is stashed and returned
RECURSIVE StashChildAt(_, _, _, _, _, _)
StashChildAt(f, c, base, i, child_count, dist) ==
    IF i >= child_count THEN c
    ELSE IF FNode_distance(f, base + i) = Some(dist) /\ FNode_key(f, base + i) # NoValue
         THEN LET put == stash(c.stash, c.made, base + i, FNode_key(f, base + i).value)
              IN  [stash |-> put.stash, made |-> put.made,
                   returned |-> <<[index |-> base + i, node |-> put.stash[base + i]]>>]
         ELSE StashChildAt(f, c, base, i + 1, child_count, dist)

Stash_child_at(f, st, made, index, dist) ==
    IF FNode_children_offset(f, index) # NoValue /\ FNode_child_count(f, index) # NoValue
    THEN StashChildAt(f, [stash |-> st, made |-> made, returned |-> <<>>],
                      FNode_children_offset(f, index).value, 0,
                      FNode_child_count(f, index).value, dist)
    ELSE [stash |-> st, made |-> made, returned |-> <<>>]

\* start_query_hamming_u64: a Queryable with a new, empty NodeStash
StartQuery(q) ==
    /\ file.state = "rendered"
    /\ answer = None \/ (answer.op = "stash" /\ answer.calls < MaxStashCalls)
    /\ answer' = IF answer = None
                 THEN [op |-> "stash", made |-> 0, calls |-> 0,
                       started |-> {q}, stash |-> [p \in Queries |-> EmptyStash],
                       last |-> [op |-> "start", q |-> q, returned |-> <<>>, fresh |-> 0]]
                 ELSE [answer EXCEPT !.started = @ \cup {q},
                                     !.stash[q] = EmptyStash,
                                     !.calls = @ + 1,
                                     !.last = [op |-> "start", q |-> q, returned |-> <<>>, fresh |-> 0]]
    /\ UNCHANGED <<file, treeVars, metricVars, codecVars, mmapVars, writerVars, readVars, growVars>>

\* the node views query q holds: its root, and the nodes of its cache
Held(q) == {0} \cup DOMAIN answer.stash[q]

\* children_vector() of a node of query q
ChildrenVector(q, index) ==
    /\ answer # None /\ answer.op = "stash"
    /\ q \in answer.started
    /\ answer.calls < MaxStashCalls
    /\ index \in Held(q)
    /\ LET c == Stash_children_vector(file, answer.stash[q], answer.made, index)
       IN  answer' = [answer EXCEPT !.stash[q] = c.stash,
                                    !.made = c.made,
                                    !.calls = @ + 1,
                                    !.last = [op |-> "children_vector", q |-> q,
                                              returned |-> c.returned,
                                              fresh |-> c.made - answer.made]]
    /\ UNCHANGED <<file, treeVars, metricVars, codecVars, mmapVars, writerVars, readVars, growVars>>

\* child_at(dist) of a node of query q
ChildAt(q, index, dist) ==
    /\ answer # None /\ answer.op = "stash"
    /\ q \in answer.started
    /\ answer.calls < MaxStashCalls
    /\ index \in Held(q)
    /\ LET c == Stash_child_at(file, answer.stash[q], answer.made, index, dist)
       IN  answer' = [answer EXCEPT !.stash[q] = c.stash,
                                    !.made = c.made,
                                    !.calls = @ + 1,
                                    !.last = [op |-> "child_at", q |-> q,
                                              returned |-> c.returned,
                                              fresh |-> c.made - answer.made]]
    /\ UNCHANGED <<file, treeVars, metricVars, codecVars, mmapVars, writerVars, readVars, growVars>>

\* the input files of the cache specification: the short ones
ShortInputs == UNION {[1 .. n -> 0 .. MaxFileKey] : n \in 1 .. MaxInputLen}

ReadShortInputAny == \E numbers \in ShortInputs : ReadInput(numbers)

StartQueryAny == \E q \in Queries : StartQuery(q)

ChildrenVectorAny ==
    \E q \in Queries, index \in 0 .. (MaxInputLen - 1) : ChildrenVector(q, index)

ChildAtAny ==
    \E q \in Queries, index \in 0 .. (MaxInputLen - 1), dist \in 0 .. MaxTol :
        ChildAt(q, index, dist)

InitStash == InitFile

NextStash ==
    ReadShortInputAny \/ RenderAny \/ StartQueryAny \/ ChildrenVectorAny \/ ChildAtAny

SpecStash == InitStash /\ [][NextStash]_vars

\* the boxes of a cache
Boxes(st) == {st[i] : i \in DOMAIN st}

\* C27: within a query the first request for an index makes one box and
\* caches it, every later request returns that box; a cache never loses or
\* replaces an entry while its query runs; a new query starts with an
\* empty cache, and the caches of two queries share no box.
C27_NodeCache ==
    [][(answer # None /\ answer'.op = "stash") =>
          LET q == answer'.last.q
              old == answer.stash[q]
              new == answer'.stash[q]
              given == answer'.last.returned
          IN  /\ \A p \in Queries \ {q} : answer'.stash[p] = answer.stash[p]
              /\ answer'.last.op = "start" => new = EmptyStash
              /\ answer'.last.op # "start" =>
                    /\ \A i \in DOMAIN old : i \in DOMAIN new /\ new[i] = old[i]
                    /\ \A k \in 1 .. Len(given) :
                          /\ given[k].node = new[given[k].index]
                          /\ given[k].index \in DOMAIN old =>
                                given[k].node = old[given[k].index]
                          /\ given[k].index \notin DOMAIN old =>
                                given[k].node.serial > answer.made
                    /\ answer'.made - answer.made
                          = Cardinality(DOMAIN new \ DOMAIN old)
                    /\ Cardinality(Boxes(new)) = Cardinality(DOMAIN new)
              /\ \A p1, p2 \in Queries :
                    p1 # p2 => Boxes(answer'.stash[p1]) \cap Boxes(answer'.stash[p2]) = {}
      ]_vars

\* a request answered from the cache alone: two or more nodes returned, no
\* box made by the call
C27_Witness ==
    /\ answer # None /\ answer.op = "stash"
    /\ answer.last.op = "children_vector"
    /\ Len(answer.last.returned) >= 2
    /\ answer.last.fresh = 0

(***************************************************************************)
(* The life of the nodes of the in-memory tree.                            *)
(***************************************************************************)
\* the filled slots of a child vector, as pairs <<position, child>>
Filled(children) == {<<p, children[p]>> : p \in {r \in 1 .. Len(children) : children[r] # 0}}

\* C28: a call leaves every node in place with its key and its children at
\* their slots; an add creates at most one node, a leaf, attached at one
\* free slot of one node; the root keeps the first key added; find and
\* preorder_each change nothing of the tree.
C28_InsertOnly ==
    [][/\ Len(nodes') \in {Len(nodes), Len(nodes) + 1}
       /\ \A i \in 1 .. Len(nodes) :
             /\ nodes'[i].key = nodes[i].key
             /\ Filled(nodes[i].children) \subseteq Filled(nodes'[i].children)
       /\ Len(nodes') = Len(nodes) + 1 =>
             /\ Filled(nodes'[Len(nodes')].children) = {}
             /\ nodes # <<>> =>
                   Cardinality(UNION {Filled(nodes'[i].children) \ Filled(nodes[i].children)
                                          : i \in 1 .. Len(nodes)}) = 1
             /\ \A i \in 1 .. Len(nodes) :
                   \A slot \in Filled(nodes'[i].children) \ Filled(nodes[i].children) :
                       slot[2] = Len(nodes')
       /\ Len(nodes') = Len(nodes) =>
             \A i \in 1 .. Len(nodes) :
                 Filled(nodes'[i].children) = Filled(nodes[i].children)
       /\ \A query \in KeysOf(metric) :
             (Add(query) /\ nodes = <<>>) => nodes'[1].key = query
       /\ last'.op \in {"find", "preorder"} => (nodes' = nodes /\ max_depth' = max_depth)
      ]_vars

\* an add that attached a leaf below a node that is not the root, in a full
\* tree
C28_Witness ==
    /\ last.op = "add"
    /\ Len(nodes) = MaxNodes
    /\ \E i \in 2 .. (Len(nodes) - 1) : <<1, Len(nodes)>> \in Filled(nodes[i].children)
            \/ <<2, Len(nodes)>> \in Filled(nodes[i].children)

(***************************************************************************)
(* The setters of F64BNode8 for the distance, the child count and the key, *)
(* and the readers after them.  A key is four 16-bit limbs, lowest first.  *)
(***************************************************************************)
\* LittleEndian::write_u64: eight bytes from start on
WriteU64(buf, start, key) ==
    [i \in 1 .. Len(buf) |->
        IF start < i /\ i <= start + 8
        THEN LET j == i - start - 1
             IN  IF j % 2 = 0 THEN key[(j \div 2) + 1] % 256 ELSE key[(j \div 2) + 1] \div 256
        ELSE buf[i]]

\* set_dist storing the distance in the second reserved byte
F64_set_dist_reserved(nbuf, off, dist) ==
    IF get_slice(nbuf, off, 0, 1) = NoValue
    THEN [buf |-> nbuf, result |-> Err("out of space for dist")]
    ELSE [buf |-> [nbuf EXCEPT ![off + 4] = dist % 256], result |-> Ok]

\* set_dist: dist as u8 into byte 0 of the node
F64_set_dist(nbuf, off, dist) ==
    IF get_slice(nbuf, off, 0, 1) = NoValue
    THEN [buf |-> nbuf, result |-> Err("out of space for dist")]
    ELSE [buf |-> [nbuf EXCEPT ![off + 1] = dist % 256], result |-> Ok]

\* set_num_children: n as u8 into byte 1 of the node
F64_set_num_children(nbuf, off, n) ==
    IF get_slice(nbuf, off, 1, 1) = NoValue
    THEN [buf |-> nbuf, result |-> Err("out of space for child count")]
    ELSE [buf |-> [nbuf EXCEPT ![off + 2] = n % 256], result |-> Ok]

\* set_key: the key into the eight bytes at key_offset of the key buffer
F64_set_key(kbuf, off, key) ==
    IF get_slice(kbuf, F64_key_offset(off), 0, 8) = NoValue
    THEN [buf |-> kbuf, result |-> Err("out of space for key")]
    ELSE [buf |-> WriteU64(kbuf, F64_key_offset(off), key), result |-> Ok]

SetDists == {0, 7, 255}

SetCounts == {0, 9, 255}

SetKeys == {<<0, 0, 0, 0>>, <<513, 1027, 1541, 2055>>, <<65535, 65535, 65535, 65535>>}

\* a node over the buffers of test::two_f64bnode8, at the first node, the
\* second, or just past the last
CodecSetInit ==
    /\ node_buffer = TestNodes
    /\ key_buffer = TestKeys
    /\ offset \in {0, encoding_size, 2 * encoding_size}
    /\ decoded = None

SetDist(dist) ==
    /\ LET set == F64_set_dist(node_buffer, offset, dist)
       IN  /\ node_buffer' = set.buf
           /\ decoded' = [op |-> "set_dist", value |-> dist, result |-> set.result]
    /\ UNCHANGED <<key_buffer, offset, treeVars, metricVars, mmapVars, writerVars, fileVars,
                   readVars, growVars>>

SetNumChildren(n) ==
    /\ LET set == F64_set_num_children(node_buffer, offset, n)
       IN  /\ node_buffer' = set.buf
           /\ decoded' = [op |-> "set_num_children", value |-> n, result |-> set.result]
    /\ UNCHANGED <<key_buffer, offset, treeVars, metricVars, mmapVars, writerVars, fileVars,
                   readVars, growVars>>

SetKey(key) ==
    /\ LET set == F64_set_key(key_buffer, offset, key)
       IN  /\ key_buffer' = set.buf
           /\ decoded' = [op |-> "set_key", value |-> key, result |-> set.result]
    /\ UNCHANGED <<node_buffer, offset, treeVars, metricVars, mmapVars, writerVars, fileVars,
                   readVars, growVars>>

SetDistAny == \E dist \in SetDists : SetDist(dist)

SetNumChildrenAny == \E n \in SetCounts : SetNumChildren(n)

SetKeyAny == \E key \in SetKeys : SetKey(key)

InitCodecSet ==
    /\ CodecSetInit /\ TreeIdle /\ MetricIdle /\ MmapIdle /\ WriterIdle /\ FileIdle
    /\ ReadIdle /\ GrowIdle

NextCodecSet == SetDistAny \/ SetNumChildrenAny \/ SetKeyAny \/ ReadAny

SpecCodecSet == InitCodecSet /\ [][NextCodecSet]_vars

\* the setter of each of the three fields
SetterOf == [dist |-> "set_dist", child_count |-> "set_num_children", key |-> "set_key"]

\* the positions at which two buffers of one length differ
Differ(a, b) == {i \in 1 .. Len(a) : a[i] # b[i]}

\* C29: for a node inside its buffers, dist() is byte o of the node buffer,
\* child_count() byte o + 1, the key the eight bytes of the key buffer from
\* 8 * (o / 8) on, little-endian;
\* a reader right after the setter of its field returns the value set; a
\* setter changes no byte outside its field.
C29_FieldRoundTrip ==
    [][/\ \A field \in {"dist", "child_count", "key"} :
            /\ (/\ decoded'.op = "read" /\ decoded'.field = field
                /\ FieldRange(field, node_buffer, key_buffer, offset)[3]
                      <= Len(FieldRange(field, node_buffer, key_buffer, offset)[1])) =>
                  /\ field = "dist" => decoded'.result = Some(node_buffer[offset + 1])
                  /\ field = "child_count" => decoded'.result = Some(node_buffer[offset + 2])
                  /\ field = "key" =>
                        decoded'.result =
                            Some([i \in 1 .. 4 |->
                                    key_buffer[8 * (offset \div 8) + 2 * i - 1]
                                        + 256 * key_buffer[8 * (offset \div 8) + 2 * i]])
                  /\ (decoded.op = SetterOf[field] /\ decoded.result = Ok) =>
                        decoded'.result = Some(decoded.value)
            /\ (decoded'.op = SetterOf[field] /\ decoded'.result = Ok) =>
                  LET range == FieldRange(field, node_buffer, key_buffer, offset)
                  IN  /\ Len(node_buffer') = Len(node_buffer)
                      /\ Len(key_buffer') = Len(key_buffer)
                      /\ Differ(node_buffer, node_buffer') \subseteq
                            (IF field = "key" THEN {} ELSE (range[2] + 1) .. range[3])
                      /\ Differ(key_buffer, key_buffer') \subseteq
                            (IF field = "key" THEN (range[2] + 1) .. range[3] ELSE {})
      ]_vars

\* the second node read back after its three fields were set
C29_Witness ==
    /\ offset = encoding_size
    /\ decoded.op = "read"
    /\ decoded.field = "key"
    /\ decoded.result = Some(<<65535, 65535, 65535, 65535>>)
    /\ node_buffer[offset + 1] = 255
    /\ node_buffer[offset + 2] = 9

(***************************************************************************)
(* The assertion of encode.                                                *)
(***************************************************************************)
\* C30: encode(offset) returns a buffer for every offset and every
\* descriptor: the assertion on the length of the padded buffer holds.
C30_EncodeNeverPanics ==
    (header # None /\ header.op = "encode") => header.result # Panic

\* the same for the one call main makes, encode(PREFIX_SIZE)
C30_MainEncodeNeverPanics ==
    (header # None /\ header.op = "encode" /\ header.offset = PREFIX_SIZE) =>
        header.result # Panic
====
